---- MODULE Spec2Model ----
(***************************************************************************)
(* Model of the NetBox custom script NetworkDocumentationScript            *)
(* (src/network_documentation.py): one run of the report generator over a  *)
(* read-only inventory of prefixes, VLANs and IP addresses.                *)
(*                                                                         *)
(* Addresses are held as (family, integer value) pairs, as netaddr holds   *)
(* them.  The inventory is drawn from small universes of records placed    *)
(* around 10.0.0.0 (IPv4) and ::a00:0 (IPv6), whose integer values agree,  *)
(* so that the boundaries the script decides on (/23 against /24, /30      *)
(* against /31 and /32, /127 and /128) all occur.                          *)
(***************************************************************************)
EXTENDS Integers, Sequences, FiniteSets, TLC

VARIABLES
    installed,           \* the Python packages of the NetBox environment
    dbPrefixes,          \* Prefix.objects: the stored prefixes (all sites)
    dbVlans,             \* VLAN.objects: the stored VLANs (all sites)
    dbAddresses,         \* IPAddress.objects: the stored address records
    OPENPYXL_AVAILABLE,  \* module flag set by the import at lines 19-25
    BRANCHING_AVAILABLE, \* module flag set by the import at lines 28-34
    branch_active,       \* TRUE inside "with activate_branch(branch)"
    data,                \* the form data handed to run()
    pc,                  \* position of run()
    prefixes,            \* do_work: the site's prefixes, in query order
    vlans,               \* do_work: the site's VLANs, in query order
    orphan_vlans,        \* do_work: the VLANs no prefix references
    prefix_sheet_names,  \* do_work: prefix id -> pre-calculated sheet name
    matching_ips,        \* prefix id -> what _get_prefix_ip_addresses last returned
    workbook,            \* the openpyxl workbook being built (NoWorkbook before)
    file_content,        \* TRUE once workbook.save(buffer) has rendered the bytes
    job_output,          \* TRUE once the file is attached to job.output_file
    media_file,          \* TRUE once the file is written under MEDIA_ROOT
    media_partial,       \* TRUE when open(file_path, 'wb') left a file that
                         \* f.write did not complete
    result,              \* the string run() returns (its kind)
    queries,             \* inventory reads issued so far: (kind, in branch)
    util,                \* the utilization computation taken alone: its
                         \* arguments and what it yields
    nb,                  \* site_blueprint.py: the NetBox tables it works on
    bp                   \* site_blueprint.py: position and locals of
                         \* DeploySiteFromBlueprint.run

vars == << installed, dbPrefixes, dbVlans, dbAddresses, OPENPYXL_AVAILABLE,
           BRANCHING_AVAILABLE, branch_active, data, pc,
           prefixes, vlans, orphan_vlans, prefix_sheet_names, matching_ips,
           workbook,
           file_content, job_output, media_file, media_partial, result,
           queries, util, nb, bp >>

(***************************************************************************)
(* Bounds of the model.                                                    *)
(***************************************************************************)
\* Largest number of stored objects (prefixes, addresses, and VLANs that no
\* stored prefix refers to).
MaxObjects == 3
\* Largest arguments of the utilization computation taken alone.
MaxUsed == 9
MaxTotal == 10
\* Devices of one kind a deployment asks for.
MaxDevices == 2

(***************************************************************************)
(* Program constants.                                                      *)
(***************************************************************************)
\* if prefix_network.prefixlen <= 30: total_ips = size - 2
UsableExclusionMaxLen == 30
\* show_all_ips = show_unused_ips and prefix_size >= 24
EnumerableMinLen == 24

\* netaddr: address width in bits of each family.
Width(fam) == IF fam = 4 THEN 32 ELSE 128

\* 10.0.0.0 as an integer; ::a00:0 has the same integer value.
Base == 10 * 2^24

\* Python's None, for an optional foreign key (prefix.vlan, data['branch']).
None == 0

(***************************************************************************)
(* The inventory universes.  "S" is the site the report is run for, "T"    *)
(* another site.                                                           *)
(***************************************************************************)
Vlan(id, vid, name, site) == [id |-> id, vid |-> vid, name |-> name, site |-> site]

VlanUniverse ==
    { Vlan(1, 100, "users", "S"),
      Vlan(2, 200, "voice", "S"),
      Vlan(3, 100, "users-T", "T") }

VlanById(id) == CHOOSE v \in VlanUniverse : v.id = id

\* description is "" or a text; bad marks a description holding a character
\* the worksheet refuses (beyond the 31 characters a sheet title keeps).
Pfx(id, fam, net, len, site, vlan, descr, bad) ==
    [id |-> id, fam |-> fam, net |-> net, len |-> len, site |-> site,
     vlan |-> vlan, description |-> descr, bad |-> bad]

PrefixUniverse ==
    { Pfx(1, 4, Base,     23, "S", None, "",     FALSE),
      Pfx(2, 4, Base,     24, "S", 1,    "LAN",  FALSE),
      Pfx(3, 4, Base,     30, "S", 3,    "",     FALSE),
      Pfx(4, 4, Base,     31, "S", None, "p2p",  FALSE),
      Pfx(5, 4, Base + 1, 32, "S", 1,    "LAN",  FALSE),
      Pfx(6, 6, Base,    119, "S", 2,    "v6",   FALSE),
      Pfx(7, 6, Base,    127, "S", None, "",     FALSE),
      Pfx(8, 6, Base + 1,128, "S", None, "lo",   FALSE),
      Pfx(9, 4, Base + 4, 30, "S", None, "ctl",  TRUE),
      Pfx(10,4, Base,     24, "T", None, "",     FALSE) }

\* vrf: the routing domain (0: global); site: the site of the owning device
\* ("": none); tag: the slug of the tag the address carries ("": no tag;
\* "error": a tag record whose lookup raises); assigned: the kind of its
\* assigned_object ("InterfaceRaising": a device interface on which reading
\* the device's role raises); bad marks an owner name holding a character
\* the worksheet refuses.
Addr(id, fam, val, plen, vrf, site, tag, assigned, name, bad) ==
    [id |-> id, fam |-> fam, val |-> val, plen |-> plen, vrf |-> vrf,
     site |-> site,
     tags |-> IF tag \in {"", "error"} THEN {} ELSE {tag},
     tags_raise |-> (tag = "error"),
     assigned |-> assigned, name |-> name, bad |-> bad]

AddressUniverse ==
    { Addr(1, 4, Base + 1,   24, 0, "S", "default-gateway", "Interface",   "sw1",  FALSE),
      Addr(2, 4, Base,       24, 0, "S", "",                "VMInterface", "vm1",  FALSE),
      Addr(3, 4, Base + 255, 24, 1, "T", "error",           "Other",       "fhrp", FALSE),
      Addr(4, 4, Base + 256, 23, 0, "",  "",                "None",        "",     FALSE),
      Addr(5, 4, Base + 1,   32, 1, "T", "",                "InterfaceRaising", "sw2", FALSE),
      Addr(6, 6, Base + 1,  119, 0, "S", "default-gateway", "Interface",   "sw6",  FALSE),
      Addr(7, 4, Base + 2,   24, 0, "S", "",                "Interface",   "bad",  TRUE),
      Addr(8, 6, Base,      119, 0, "S", "Default-Gateway", "VMInterface", "vm2",  FALSE) }

SubsetsUpTo(U, n) == { s \in SUBSET U : Cardinality(s) <= n }

(***************************************************************************)
(* netaddr arithmetic, as the script uses it.                              *)
(***************************************************************************)
\* IPNetwork.size
Size(p) == 2^(Width(p.fam) - p.len)

\* IPNetwork.first and IPNetwork.last: the network and broadcast integers.
First(p) == (p.net \div Size(p)) * Size(p)
Last(p) == First(p) + Size(p) - 1

\* "ip_addr in prefix_network" (IPNetwork.__contains__): FALSE across
\* families, otherwise both values shifted right by the host bits agree.
InNetworkNoVersionCheck(fam, val, p) == val \div Size(p) = p.net \div Size(p)
InNetwork(fam, val, p) ==
    /\ fam = p.fam
    /\ val \div Size(p) = p.net \div Size(p)

\* IPNetwork.iter_hosts(): for a network of at least 4 addresses the first
\* address is left out, and for IPv4 the last one too; a smaller network
\* (/31, /32, /127, /128) yields every address.  Ascending.
HostLo(p) == IF Size(p) >= 4 THEN First(p) + 1 ELSE First(p)
HostHi(p) == IF Size(p) >= 4 /\ p.fam = 4 THEN Last(p) - 1 ELSE Last(p)
iter_hosts(p) == [i \in 1..(HostHi(p) - HostLo(p) + 1) |-> HostLo(p) + i - 1]

\* str(ip.address).split('/')[0] and str(netaddr.IPAddress): the canonical
\* text of an address, which names its family and its value.
AddrStr(fam, val) == << fam, val >>

(***************************************************************************)
(* Orderings of the queries.                                               *)
(***************************************************************************)
Min(a, b) == IF a < b THEN a ELSE b

\* order_by('prefix'): PostgreSQL's cidr order (family, then the network bits
\* both have, then the mask length); the primary key settles a tie here.
PrefixBefore(p, q) ==
    LET m == Min(p.len, q.len)
        pb == p.net \div 2^(Width(p.fam) - m)
        qb == q.net \div 2^(Width(q.fam) - m)
    IN  IF p.fam # q.fam THEN p.fam < q.fam
        ELSE IF pb # qb THEN pb < qb
        ELSE IF p.len # q.len THEN p.len < q.len
        ELSE p.id < q.id

\* order_by('vid'), the primary key settling a tie.
VlanBefore(v, w) == IF v.vid # w.vid THEN v.vid < w.vid ELSE v.id < w.id

\* matching_ips.sort(key=IPAddress): a stable sort by (family, value) of
\* IPAddress.objects.all(), which comes in Meta.ordering ('address', 'pk').
AddressBefore(a, b) ==
    IF a.fam # b.fam THEN a.fam < b.fam
    ELSE IF a.val # b.val THEN a.val < b.val
    ELSE IF a.plen # b.plen THEN a.plen < b.plen
    ELSE a.id < b.id

\* The elements of S in the order Before, a strict total order on S.
SortedBy(S, Before(_, _)) ==
    [i \in 1..Cardinality(S) |->
        CHOOSE x \in S : Cardinality({y \in S : Before(y, x)}) = i - 1]

(***************************************************************************)
(* Data collection methods.                                                *)
(***************************************************************************)
\* Prefix.objects.filter(site=site).order_by('prefix')
_get_site_prefixes(site) ==
    SortedBy({p \in dbPrefixes : p.site = site}, PrefixBefore)

\* VLAN.objects.filter(site=site).order_by('vid')
_get_site_vlans(site) ==
    SortedBy({v \in dbVlans : v.site = site}, VlanBefore)

\* set(prefixes.exclude(vlan__isnull=True).values_list('vlan_id', flat=True))
prefix_vlan_ids(pfxs) ==
    { pfxs[i].vlan : i \in {j \in 1..Len(pfxs) : pfxs[j].vlan # None} }

\* VLAN.objects.filter(site=site).exclude(id__in=prefix_vlan_ids).order_by('vid');
\* the first definition is the query without its exclude().
_get_orphan_vlans_all_site(site, pfxs) ==
    SortedBy({v \in dbVlans : v.site = site}, VlanBefore)
_get_orphan_vlans(site, pfxs) ==
    SortedBy({v \in dbVlans : v.site = site /\ v.id \notin prefix_vlan_ids(pfxs)},
             VlanBefore)

\* ip_address.tags.filter(slug='default-gateway').exists(), and False when
\* the lookup raises (lines 160-163); the first definition lets a failed
\* lookup count as a gateway.
_is_default_gateway_unless_lookup_fails(ip) ==
    ip.tags_raise \/ "default-gateway" \in ip.tags
_is_default_gateway(ip) ==
    IF ip.tags_raise THEN FALSE ELSE "default-gateway" \in ip.tags

\* Every stored address that lies in the prefix, sorted by address.
_get_prefix_ip_addresses(prefix) ==
    SortedBy({ip \in dbAddresses : InNetwork(ip.fam, ip.val, prefix)},
             AddressBefore)

\* The dict the method returns, by the kind of ip_address.assigned_object
\* (lines 196-238).  An exception raised while the fields are filled is
\* caught at line 235 and the dict is returned as filled so far: for
\* "InterfaceRaising" with the device name only.  The first definition is
\* the method without its else branch (lines 229-233).
_get_ip_device_info_known_kinds_only(ip) ==
    LET empty == [device_name |-> "", device_role |-> "", device_model |-> "",
                  interface_name |-> "", device_type |-> "", status |-> "active"]
    IN  CASE ip.assigned = "Interface" ->
                [empty EXCEPT !.device_name = ip.name, !.device_role = "role",
                              !.device_model = "model", !.interface_name = "eth0",
                              !.device_type = "Device"]
          [] ip.assigned = "VMInterface" ->
                [empty EXCEPT !.device_name = ip.name, !.device_role = "role",
                              !.device_model = "Virtual", !.interface_name = "eth0",
                              !.device_type = "VM"]
          [] OTHER -> empty
_get_ip_device_info(ip) ==
    LET empty == [device_name |-> "", device_role |-> "", device_model |-> "",
                  interface_name |-> "", device_type |-> "", status |-> "active"]
    IN  CASE ip.assigned = "None" -> empty
          [] ip.assigned = "Interface" ->
                [empty EXCEPT !.device_name = ip.name, !.device_role = "role",
                              !.device_model = "model", !.interface_name = "eth0",
                              !.device_type = "Device"]
          [] ip.assigned = "InterfaceRaising" ->
                [empty EXCEPT !.device_name = ip.name]
          [] ip.assigned = "VMInterface" ->
                [empty EXCEPT !.device_name = ip.name, !.device_role = "role",
                              !.device_model = "Virtual", !.interface_name = "eth0",
                              !.device_type = "VM"]
          [] OTHER ->
                [empty EXCEPT !.device_name = ip.name, !.device_type = "FHRPGroup"]

\* x or default, for a string
OrElse(x, default) == IF x = "" THEN default ELSE x

(***************************************************************************)
(* The summary sheet.                                                      *)
(***************************************************************************)
\* total_ips: usable addresses of the prefix (lines 336-341); the first
\* definition is the subtraction without the test of the prefix length.
total_ips_always_minus_2(prefix) == Size(prefix) - 2
total_ips(prefix) ==
    IF prefix.len <= UsableExclusionMaxLen
    THEN Size(prefix) - 2
    ELSE Size(prefix)

\* gateway_str of the summary: the first tagged address, or "".
SummaryGateway(assigned_ips) ==
    LET gw == SelectSeq(assigned_ips, _is_default_gateway)
    IN  IF Len(gw) > 0 THEN AddrStr(gw[1].fam, gw[1].val) ELSE << >>

\* utilization = f"{used_ips} / {total_ips}" (line 347): the text of the
\* number format of column 6; na marks the text "N/A", which only the
\* handler at lines 353-356 assigns.
utilization(used_ips, total) ==
    [na |-> FALSE, used |-> used_ips, total |-> total]

\* utilization_pct = (used_ips / total * 100) if total > 0 else 0
\* (line 348), as the fraction << numerator, denominator >>; the first
\* definition is the division without its guard.
utilization_pct_unguarded(used_ips, total) == << used_ips * 100, total >>
utilization_pct(used_ips, total) ==
    IF total > 0 THEN << used_ips * 100, total >> ELSE << 0, 1 >>

\* The cells of one summary row; cells counts the columns written (6: all;
\* 4: the write of the description cell raised).  used and total are the two
\* numbers of the "used / total" number format, pct the percentage as the
\* fraction pct[1] / pct[2].
SummaryCells(prefix, sheet_names) ==
    LET assigned_ips == _get_prefix_ip_addresses(prefix)
        used_ips == Len(assigned_ips)
        total == total_ips(prefix)
    IN  [pid |-> prefix.id,
         vid |-> IF prefix.vlan # None THEN VlanById(prefix.vlan).vid ELSE None,
         vlan_name |-> IF prefix.vlan # None THEN VlanById(prefix.vlan).name
                       ELSE "No VLAN",
         prefix |-> << prefix.fam, prefix.net, prefix.len >>,
         gateway |-> SummaryGateway(assigned_ips),
         description |-> prefix.description,
         used |-> used_ips,
         total |-> total,
         pct |-> utilization_pct(used_ips, total),
         link |-> << sheet_names[prefix.id] >>,
         cells |-> 6]

\* The row left when ws.cell(...) raises on the description (column 5):
\* columns 1 to 4 are written, current_row is not advanced.
SummaryPartialCells(prefix, sheet_names) ==
    [SummaryCells(prefix, sheet_names) EXCEPT
        !.description = "", !.used = 0, !.total = 0, !.pct = << 0, 1 >>,
        !.link = << >>, !.cells = 4]

\* The loop over the prefixes (lines 331-401).  ws.rows are the rows below
\* current_row, ws.pending the cells written at current_row by an iteration
\* that raised: the next row written there replaces them.
RECURSIVE SummaryLoop(_, _, _, _)
SummaryLoop(pfxs, i, sheet_names, ws) ==
    IF i > Len(pfxs) THEN ws
    ELSE IF pfxs[i].bad
         THEN SummaryLoop(pfxs, i + 1, sheet_names,
                [ws EXCEPT !.pending = << SummaryPartialCells(pfxs[i], sheet_names) >>])
         ELSE SummaryLoop(pfxs, i + 1, sheet_names,
                [rows |-> Append(ws.rows, SummaryCells(pfxs[i], sheet_names)),
                 pending |-> << >>])

OrphanRow(vlan) == [vid |-> vlan.vid, name |-> vlan.name, id |-> vlan.id]

\* The Summary worksheet: the prefix rows, what a raising last iteration
\* left in the row after them, and the orphan VLAN table.
_create_summary_sheet(pfxs, orphans, sheet_names) ==
    LET ws == SummaryLoop(pfxs, 1, sheet_names, [rows |-> << >>, pending |-> << >>])
    IN  [rows |-> ws.rows,
         pending |-> ws.pending,
         orphans |-> [i \in 1..Len(orphans) |-> OrphanRow(orphans[i])]]

(***************************************************************************)
(* The per-prefix detail sheets.                                           *)
(***************************************************************************)
\* assigned_ip_lookup.get(ip_str): the dict is filled in the order of
\* assigned_ips, so the last record with an address keeps its key.
assigned_ip_lookup(assigned_ips, key) ==
    LET hits == {i \in 1..Len(assigned_ips) :
                    AddrStr(assigned_ips[i].fam, assigned_ips[i].val) = key}
    IN  IF hits = {} THEN << >>
        ELSE << assigned_ips[CHOOSE i \in hits : \A j \in hits : i >= j] >>

\* show_all_ips = show_unused_ips and prefix_size >= 24
show_all_ips(show_unused_ips, prefix) ==
    show_unused_ips /\ prefix.len >= EnumerableMinLen

\* all_ips_in_prefix: every usable host, or the assigned addresses only.
all_ips_in_prefix(show_unused_ips, prefix, assigned_ips) ==
    IF show_all_ips(show_unused_ips, prefix)
    THEN LET hosts == iter_hosts(prefix)
         IN  [i \in 1..Len(hosts) |-> AddrStr(prefix.fam, hosts[i])]
    ELSE [i \in 1..Len(assigned_ips) |->
            AddrStr(assigned_ips[i].fam, assigned_ips[i].val)]

\* row_data of an assigned address (lines 569-584); cells counts the columns
\* written.
AssignedRow(ip) ==
    LET info == _get_ip_device_info(ip)
    IN  [ip |-> AddrStr(ip.fam, ip.val),
         plen |-> ip.plen,
         gw |-> _is_default_gateway(ip),
         device_name |-> OrElse(info.device_name, "Unassigned"),
         device_role |-> OrElse(info.device_role, "N/A"),
         device_model |-> OrElse(info.device_model, "N/A"),
         interface_name |-> OrElse(info.interface_name, "N/A"),
         device_type |-> OrElse(info.device_type, "N/A"),
         status |-> OrElse(info.status, "N/A"),
         cells |-> 7]

\* row_data of an address without a record (lines 599-607).
AvailableRow(key, prefix) ==
    [ip |-> key, plen |-> prefix.len, gw |-> FALSE,
     device_name |-> "", device_role |-> "", device_model |-> "",
     interface_name |-> "", device_type |-> "", status |-> "Available",
     cells |-> 7]

\* What is left of an assigned row when ws.cell(...) raises on the owner
\* name (column 2): the address cell alone, current_row not advanced.
PartialRow(ip) ==
    [AssignedRow(ip) EXCEPT
        !.device_name = "", !.device_role = "", !.device_model = "",
        !.interface_name = "", !.device_type = "", !.status = "", !.cells = 1]

\* One iteration of the loop over all_ips_in_prefix (lines 562-619): the
\* cells it writes at current_row, and whether it raised before
\* "current_row += 1".  The first definition is the loop body with its else
\* branch only.
AvailableForEveryone(key, prefix, assigned_ips) ==
    [raised |-> FALSE, cells |-> AvailableRow(key, prefix)]
DetailStep(key, prefix, assigned_ips) ==
    LET assigned_ip == assigned_ip_lookup(assigned_ips, key)
    IN  IF assigned_ip # << >>
        THEN IF assigned_ip[1].bad
             THEN [raised |-> TRUE, cells |-> PartialRow(assigned_ip[1])]
             ELSE [raised |-> FALSE, cells |-> AssignedRow(assigned_ip[1])]
        ELSE [raised |-> FALSE, cells |-> AvailableRow(key, prefix)]

\* The loop over all_ips_in_prefix.  current_row advances only when an
\* iteration completes, and a completed iteration writes all seven cells:
\* the rows below current_row are those of the completed iterations, in
\* order, and the cells of a raising iteration stay at current_row only if
\* it is the last iteration.
DetailLoop(keys, prefix, assigned_ips) ==
    LET n == Len(keys)
        steps == [i \in 1..n |-> DetailStep(keys[i], prefix, assigned_ips)]
        completed == SelectSeq(steps, LAMBDA st : ~st.raised)
    IN  [rows |-> [j \in 1..Len(completed) |-> completed[j].cells],
         pending |-> IF n > 0 /\ steps[n].raised
                     THEN << steps[n].cells >> ELSE << >>]

\* workbook.create_sheet(sheet_name): openpyxl numbers a title already in
\* the workbook (n = 0: the title as given).
SheetTitle(sheet_name, sheets) ==
    [name |-> sheet_name,
     n |-> Cardinality({k \in 1..Len(sheets) : sheets[k].title.name = sheet_name})]

\* gateway_str of the sheet header: every tagged address.
SheetGateways(assigned_ips) ==
    LET gw == SelectSeq(assigned_ips, _is_default_gateway)
    IN  [i \in 1..Len(gw) |-> AddrStr(gw[i].fam, gw[i].val)]

\* The worksheet of one prefix (lines 493-622).  When the write of the
\* description (A3) raises, the sheet stays in the workbook with the
\* header cells written before it and no table (stage "header").
PrefixSheet(prefix, show_unused_ips, sheet_names, sheets) ==
    LET assigned_ips == _get_prefix_ip_addresses(prefix)
        keys == all_ips_in_prefix(show_unused_ips, prefix, assigned_ips)
        ws == DetailLoop(keys, prefix, assigned_ips)
        head == [pid |-> prefix.id,
                 title |-> SheetTitle(sheet_names[prefix.id], sheets),
                 stage |-> "header",
                 gateways |-> << >>,
                 show_all |-> FALSE,
                 rows |-> << >>,
                 pending |-> << >>]
    IN  IF prefix.bad THEN head
        ELSE [head EXCEPT !.stage = "table",
                          !.gateways = SheetGateways(assigned_ips),
                          !.show_all = show_all_ips(show_unused_ips, prefix),
                          !.rows = ws.rows,
                          !.pending = ws.pending]

\* Skip empty prefixes if configured (and not showing unused), line 488; the
\* first definition is the test without "and not show_unused_ips".
SkipPrefixThoughUnusedShown(prefix, include_empty, show_unused_ips) ==
    /\ ~include_empty
    /\ Len(_get_prefix_ip_addresses(prefix)) = 0
SkipPrefix(prefix, include_empty, show_unused_ips) ==
    /\ ~include_empty
    /\ Len(_get_prefix_ip_addresses(prefix)) = 0
    /\ ~show_unused_ips

\* The loop over the prefixes (lines 482-625).
RECURSIVE _create_prefix_sheets(_, _, _, _, _, _)
_create_prefix_sheets(pfxs, i, include_empty, sheet_names, show_unused_ips, sheets) ==
    IF i > Len(pfxs) THEN sheets
    ELSE _create_prefix_sheets(pfxs, i + 1, include_empty, sheet_names,
            show_unused_ips,
            IF SkipPrefix(pfxs[i], include_empty, show_unused_ips)
            THEN sheets
            ELSE Append(sheets,
                    PrefixSheet(pfxs[i], show_unused_ips, sheet_names, sheets)))

\* The name pre-calculated for a prefix (lines 684-689): the VLAN number or
\* "NoVLAN", then the description or else the prefix.
SheetName(prefix) ==
    [vlan |-> IF prefix.vlan # None THEN VlanById(prefix.vlan).vid ELSE None,
     text |-> prefix.description,
     prefix |-> IF prefix.description = ""
                THEN << prefix.fam, prefix.net, prefix.len >> ELSE << >>]

(***************************************************************************)
(* The run.                                                                *)
(***************************************************************************)
NoWorkbook ==
    [built |-> FALSE, cover |-> FALSE, summary |-> << >>, sheets |-> << >>]

NoData == [include_empty_prefixes |-> TRUE, show_unused_ips |-> TRUE,
           branch |-> None, site |-> "S"]

\* One inventory read, with whether the branch context was active; the
\* first definition is a read made on the main schema whatever the context.
ReadOutsideBranch(kind) == [kind |-> kind, in_branch |-> FALSE]
Read(kind) == [kind |-> kind, in_branch |-> branch_active]

\* The VLANs the stored prefixes refer to (foreign keys hold).
Referenced(ps) == { VlanById(p.vlan) : p \in {q \in ps : q.vlan # None} }

Inventories ==
    { inv \in [p : SubsetsUpTo(PrefixUniverse, MaxObjects),
               a : SubsetsUpTo(AddressUniverse, MaxObjects),
               v : SUBSET VlanUniverse] :
        /\ inv.v \cap Referenced(inv.p) = {}
        /\ Cardinality(inv.p) + Cardinality(inv.a) + Cardinality(inv.v)
              <= MaxObjects }

\* No blueprint deployment: empty tables, no run.
EmptyNetBox ==
    [Site |-> {}, VLAN |-> {}, Prefix |-> {}, Rack |-> {}, DeviceRole |-> {},
     Device |-> {}, DeviceType |-> {}, pk |-> 1]
NoBlueprintRun ==
    [pc |-> "idle", run |-> 0, data |-> << >>, template |-> << >>,
     site |-> None, first |-> << >>]

\* The utilization computation has not been made.
NoCall == [called |-> FALSE, used |-> 0, total |-> 0,
           label |-> [na |-> TRUE, used |-> 0, total |-> 0], pct |-> << 0, 1 >>]

InitRun ==
    /\ OPENPYXL_AVAILABLE = FALSE
    /\ BRANCHING_AVAILABLE = FALSE
    /\ branch_active = FALSE
    /\ data = NoData
    /\ pc = "unloaded"
    /\ prefixes = << >>
    /\ vlans = << >>
    /\ orphan_vlans = << >>
    /\ prefix_sheet_names = << >>
    /\ matching_ips = << >>
    /\ workbook = NoWorkbook
    /\ file_content = FALSE
    /\ job_output = FALSE
    /\ media_file = FALSE
    /\ media_partial = FALSE
    /\ result = ""
    /\ queries = {}
    /\ util = NoCall
    /\ bp = NoBlueprintRun

Init ==
    /\ \E inv \in Inventories :
        /\ dbPrefixes = inv.p
        /\ dbAddresses = inv.a
        /\ dbVlans = inv.v \cup Referenced(inv.p)
    /\ installed \in SUBSET {"openpyxl"}
    /\ nb = EmptyNetBox
    /\ InitRun

inventory == << installed, dbPrefixes, dbVlans, dbAddresses >>
flags == << OPENPYXL_AVAILABLE, BRANCHING_AVAILABLE >>
collected == << prefixes, vlans, orphan_vlans, matching_ips >>
outputs == << file_content, job_output, media_file, media_partial >>
\* What run() has no access to.
outside == << util, nb, bp >>

\* Lines 19-34: the guarded imports set the two module flags.
ImportModule ==
    /\ pc = "unloaded"
    /\ OPENPYXL_AVAILABLE' = ("openpyxl" \in installed)
    /\ BRANCHING_AVAILABLE' = ("netbox_branching" \in installed)
    /\ pc' = "loaded"
    /\ UNCHANGED << outside, inventory, branch_active, data, collected,
                    prefix_sheet_names, workbook, outputs, result, queries >>

\* run(), lines 633-639: the dependency check.
RunMissingDependency ==
    /\ pc = "loaded"
    /\ ~OPENPYXL_AVAILABLE
    /\ result' = "ERROR: Missing required library 'openpyxl'"
    /\ pc' = "DONE"
    /\ UNCHANGED << outside, inventory, flags, branch_active, data, collected,
                    prefix_sheet_names, workbook, outputs, queries >>

\* run(), lines 641-702: the form data is read, the styles are set up and
\* the branch context, if a branch is given, is entered.  The first
\* definition is run() without lines 637-639.
RunWithoutDependencyCheck ==
    /\ pc = "loaded"
    /\ \E include_empty \in BOOLEAN, show_unused \in BOOLEAN,
          branch \in (IF BRANCHING_AVAILABLE THEN {None, 1} ELSE {None}) :
        /\ data' = [include_empty_prefixes |-> include_empty,
                    show_unused_ips |-> show_unused,
                    branch |-> branch, site |-> "S"]
        /\ branch_active' = (branch # None /\ BRANCHING_AVAILABLE)
    /\ pc' = "INIT"
    /\ UNCHANGED << outside, inventory, flags, collected, prefix_sheet_names, workbook,
                    outputs, result, queries >>
Run ==
    /\ pc = "loaded"
    /\ OPENPYXL_AVAILABLE
    /\ \E include_empty \in BOOLEAN, show_unused \in BOOLEAN,
          branch \in (IF BRANCHING_AVAILABLE THEN {None, 1} ELSE {None}) :
        /\ data' = [include_empty_prefixes |-> include_empty,
                    show_unused_ips |-> show_unused,
                    branch |-> branch, site |-> "S"]
        /\ branch_active' = (branch # None /\ BRANCHING_AVAILABLE)
    /\ pc' = "INIT"
    /\ UNCHANGED << outside, inventory, flags, collected, prefix_sheet_names, workbook,
                    outputs, result, queries >>

\* do_work, line 665
GetSitePrefixes ==
    /\ pc = "INIT"
    /\ prefixes' = _get_site_prefixes(data.site)
    /\ queries' = queries \cup {Read("prefixes")}
    /\ pc' = "PREFIXES_LOADED"
    /\ UNCHANGED << outside, inventory, flags, branch_active, data, vlans, orphan_vlans,
                    matching_ips, prefix_sheet_names, workbook, outputs, result >>

\* do_work, line 666; the first definition is the query made ahead of
\* line 665.
GetSiteVlansFirst ==
    /\ pc = "INIT"
    /\ vlans' = _get_site_vlans(data.site)
    /\ queries' = queries \cup {Read("vlans")}
    /\ pc' = "VLANS_LOADED"
    /\ UNCHANGED << outside, inventory, flags, branch_active, data, prefixes,
                    orphan_vlans, matching_ips, prefix_sheet_names, workbook,
                    outputs, result >>
GetSiteVlans ==
    /\ pc = "PREFIXES_LOADED"
    /\ vlans' = _get_site_vlans(data.site)
    /\ queries' = queries \cup {Read("vlans")}
    /\ pc' = "VLANS_LOADED"
    /\ UNCHANGED << outside, inventory, flags, branch_active, data, prefixes,
                    orphan_vlans, matching_ips, prefix_sheet_names, workbook,
                    outputs, result >>

\* do_work, line 667; the first definition is the step followed by the
\* deletion of the orphans it found.
GetOrphanVlansAndDelete ==
    /\ pc = "VLANS_LOADED"
    /\ orphan_vlans' = _get_orphan_vlans(data.site, prefixes)
    /\ dbVlans' = dbVlans \ { orphan_vlans'[i] : i \in 1..Len(orphan_vlans') }
    /\ queries' = queries \cup {Read("orphan_vlans")}
    /\ pc' = "ORPHANS_RESOLVED"
    /\ UNCHANGED << outside, installed, dbPrefixes, dbAddresses, flags,
                    branch_active, data, prefixes, vlans, matching_ips,
                    prefix_sheet_names, workbook, outputs, result >>
GetOrphanVlans ==
    /\ pc = "VLANS_LOADED"
    /\ orphan_vlans' = _get_orphan_vlans(data.site, prefixes)
    /\ queries' = queries \cup {Read("orphan_vlans")}
    /\ pc' = "ORPHANS_RESOLVED"
    /\ UNCHANGED << outside, inventory, flags, branch_active, data, prefixes, vlans,
                    matching_ips, prefix_sheet_names, workbook, outputs, result >>

\* do_work, lines 670-672, then lines 703-709: nothing to document; the
\* branch context is left and run() returns the error string.
ValidateNoData ==
    /\ pc = "ORPHANS_RESOLVED"
    /\ Len(prefixes) = 0 /\ Len(vlans) = 0
    /\ result' = "ERROR: No prefixes or VLANs found for site"
    /\ branch_active' = FALSE
    /\ pc' = "DONE"
    /\ UNCHANGED << outside, inventory, flags, data, collected, prefix_sheet_names,
                    workbook, outputs, queries >>

\* do_work, lines 670-690: the gate is passed, the workbook is created and
\* the sheet names are pre-calculated.  The first definition is do_work
\* without lines 670-672.
ValidateWithoutGate ==
    /\ pc = "ORPHANS_RESOLVED"
    /\ workbook' = [NoWorkbook EXCEPT !.built = TRUE]
    /\ prefix_sheet_names' =
          [id \in {prefixes[i].id : i \in 1..Len(prefixes)} |->
              SheetName(CHOOSE p \in dbPrefixes : p.id = id)]
    /\ pc' = "VALIDATED"
    /\ UNCHANGED << outside, inventory, flags, branch_active, data, collected, outputs,
                    result, queries >>
Validate ==
    /\ pc = "ORPHANS_RESOLVED"
    /\ ~(Len(prefixes) = 0 /\ Len(vlans) = 0)
    /\ workbook' = [NoWorkbook EXCEPT !.built = TRUE]
    /\ prefix_sheet_names' =
          [id \in {prefixes[i].id : i \in 1..Len(prefixes)} |->
              SheetName(CHOOSE p \in dbPrefixes : p.id = id)]
    /\ pc' = "VALIDATED"
    /\ UNCHANGED << outside, inventory, flags, branch_active, data, collected, outputs,
                    result, queries >>

\* do_work, line 693
CreateCoverPage ==
    /\ pc = "VALIDATED"
    /\ workbook' = [workbook EXCEPT !.cover = TRUE]
    /\ pc' = "COVER_BUILT"
    /\ UNCHANGED << outside, inventory, flags, branch_active, data, collected,
                    prefix_sheet_names, outputs, result, queries >>

\* do_work, line 694
CreateSummarySheet ==
    /\ pc = "COVER_BUILT"
    /\ workbook' = [workbook EXCEPT !.summary =
          << _create_summary_sheet(prefixes, orphan_vlans, prefix_sheet_names) >>]
    /\ queries' = queries \cup
          (IF Len(prefixes) > 0 THEN {Read("addresses")} ELSE {})
          \cup (IF \E i \in 1..Len(prefixes) :
                      Len(_get_prefix_ip_addresses(prefixes[i])) > 0
                THEN {Read("tags")} ELSE {})
    /\ matching_ips' = [id \in {prefixes[i].id : i \in 1..Len(prefixes)} |->
          _get_prefix_ip_addresses(CHOOSE p \in dbPrefixes : p.id = id)]
    /\ pc' = "SUMMARY_BUILT"
    /\ UNCHANGED << outside, inventory, flags, branch_active, data, prefixes, vlans,
                    orphan_vlans, prefix_sheet_names, outputs, result >>

\* do_work, line 695
CreatePrefixSheets ==
    /\ pc = "SUMMARY_BUILT"
    /\ workbook' = [workbook EXCEPT !.sheets =
          _create_prefix_sheets(prefixes, 1, data.include_empty_prefixes,
                                prefix_sheet_names, data.show_unused_ips, << >>)]
    /\ queries' = queries \cup
          (IF Len(prefixes) > 0 THEN {Read("addresses")} ELSE {})
          \cup (IF \E k \in 1..Len(workbook'.sheets) :
                      Len(workbook'.sheets[k].rows) > 0
                THEN {Read("tags"), Read("assignments")} ELSE {})
    /\ matching_ips' = [id \in {prefixes[i].id : i \in 1..Len(prefixes)} |->
          _get_prefix_ip_addresses(CHOOSE p \in dbPrefixes : p.id = id)]
    /\ pc' = "DETAILS_BUILT"
    /\ UNCHANGED << outside, inventory, flags, branch_active, data, prefixes, vlans,
                    orphan_vlans, prefix_sheet_names, outputs, result >>

\* Lines 697-721: do_work returns, the branch context is left and the
\* workbook is rendered into the buffer.
SaveWorkbook ==
    /\ pc = "DETAILS_BUILT"
    /\ branch_active' = FALSE
    /\ file_content' = TRUE
    /\ pc' = "SAVED"
    /\ UNCHANGED << outside, inventory, flags, data, collected, prefix_sheet_names,
                    workbook, job_output, media_file, media_partial, result,
                    queries >>

\* Lines 735-760: a job with an output_file is found and the file is saved to
\* it; when the save raises, the handler at lines 780-788 returns the error.
AttachToJob ==
    /\ pc = "SAVED"
    /\ \/ /\ job_output' = TRUE
          /\ result' = "Documentation generated successfully! Click the download button"
       \/ /\ job_output' = FALSE
          /\ result' = "ERROR: exception"
    /\ pc' = "DONE"
    /\ UNCHANGED << outside, inventory, flags, branch_active, data, collected,
                    prefix_sheet_names, workbook, file_content, media_file,
                    media_partial, queries >>

\* Lines 762-778: no job, or a job without output_file: the file is written
\* under MEDIA_ROOT.  When makedirs or open raises no file is left; when
\* f.write raises, the file that open(file_path, 'wb') created stays, without
\* its content; either way the handler at lines 780-788 returns the error.
SaveToMedia ==
    /\ pc = "SAVED"
    /\ \/ /\ media_file' = TRUE /\ media_partial' = FALSE
          /\ result' = "Documentation generated successfully! Download: /media/script-outputs/"
       \/ /\ media_file' = FALSE /\ media_partial' = FALSE
          /\ result' = "ERROR: exception"
       \/ /\ media_file' = FALSE /\ media_partial' = TRUE
          /\ result' = "ERROR: exception"
    /\ pc' = "DONE"
    /\ UNCHANGED << outside, inventory, flags, branch_active, data, collected,
                    prefix_sheet_names, workbook, file_content, job_output,
                    queries >>

Next ==
    \/ ImportModule
    \/ RunMissingDependency
    \/ Run
    \/ GetSitePrefixes
    \/ GetSiteVlans
    \/ GetOrphanVlans
    \/ ValidateNoData
    \/ Validate
    \/ CreateCoverPage
    \/ CreateSummarySheet
    \/ CreatePrefixSheets
    \/ SaveWorkbook
    \/ AttachToJob
    \/ SaveToMedia

\* The runs in which no exception reaches the handler of run() before the
\* workbook is rendered, in an environment without the branching plugin.
Spec == Init /\ [][Next]_vars

\* Lines 343-348 taken alone: the utilization of used_ips records in a prefix
\* of total_ips usable addresses, for any two numbers.
ComputeUtilization ==
    /\ \E used_ips \in 0..MaxUsed, total \in 0..MaxTotal :
          util' = [called |-> TRUE, used |-> used_ips, total |-> total,
                   label |-> utilization(used_ips, total),
                   pct |-> utilization_pct(used_ips, total)]
    /\ UNCHANGED << nb, bp, inventory, flags, branch_active, data, pc,
                    collected, prefix_sheet_names, workbook, outputs, result,
                    queries >>

InitUtilization ==
    /\ dbPrefixes = {} /\ dbVlans = {} /\ dbAddresses = {}
    /\ installed = {"openpyxl"}
    /\ nb = EmptyNetBox
    /\ InitRun

NextUtilization == ComputeUtilization

SpecUtilization == InitUtilization /\ [][NextUtilization]_vars

\* Lines 654-721 and 780-788: an exception that no inner handler catches
\* (raised by _init_styles, by a query, by a sheet builder outside its
\* per-row handlers, or by workbook.save) leaves the branch context, if one
\* is active, and reaches the handler of run(), which returns the error
\* string.  Nothing has been attached or written at that point.
UnexpectedFault ==
    /\ pc \in {"INIT", "PREFIXES_LOADED", "VLANS_LOADED", "ORPHANS_RESOLVED",
               "VALIDATED", "COVER_BUILT", "SUMMARY_BUILT", "DETAILS_BUILT"}
    /\ result' = "ERROR: exception"
    /\ branch_active' = FALSE
    /\ pc' = "DONE"
    /\ UNCHANGED << outside, inventory, flags, data, collected, prefix_sheet_names,
                    workbook, outputs, queries >>

\* The inventories whose prefixes hold at most four addresses each.
LightInventories ==
    { inv \in Inventories : \A p \in inv.p : Size(p) <= 4 }

\* Any environment: the branching plugin may be installed as well.
InitFaults ==
    /\ \E inv \in LightInventories :
        /\ dbPrefixes = inv.p
        /\ dbAddresses = inv.a
        /\ dbVlans = inv.v \cup Referenced(inv.p)
    /\ installed \in SUBSET {"openpyxl", "netbox_branching"}
    /\ nb = EmptyNetBox
    /\ InitRun

NextFaults == Next \/ UnexpectedFault

\* Every run, with or without the branching plugin, including those an
\* unexpected exception ends.
SpecFaults == InitFaults /\ [][NextFaults]_vars

(***************************************************************************)
(* site_blueprint.py: DeploySiteFromBlueprint.                             *)
(*                                                                         *)
(* nb holds the tables the script reads and writes, one set of objects per *)
(* model, and pk, the next primary key the database hands out: two objects *)
(* created with the same field values are two objects.  What the job       *)
(* framework does with the tables after run() raises is not in this file;  *)
(* a failed run is left where it stopped.                                  *)
(***************************************************************************)
report == << util, inventory, flags, branch_active, data, pc, collected,
             prefix_sheet_names, workbook, outputs, result, queries >>

\* Templates of /opt/netbox/site_templates, as load_blueprint returns them.
\* A vid is an expression over the context ("mgmt_vlan") or a literal; a
\* prefix template "{network_base}<rest>" is kept as its <rest>.
Templates ==
    [ base_site_template |->
        [ vlans |-> << [vid |-> "mgmt_vlan", literal |-> 0, name |-> "MGMT"],
                       [vid |-> "literal", literal |-> 20, name |-> "SCADA"] >>,
          prefixes |-> << "90.0/24", "91.0/24" >>,
          racks |-> << [name |-> "CORE-RACK", height |-> 42] >>,
          switching |-> [Moxa |-> "EDS-408", Cisco |-> "IE-3300"],
          per_field_switch |-> 2,
          inverter_model |-> "SG250HX" ],
      small_site_template |->
        [ vlans |-> << [vid |-> "literal", literal |-> 20, name |-> "SCADA"],
                       [vid |-> "literal", literal |-> 20, name |-> "SCADA-B"] >>,
          prefixes |-> << "90.0/24" >>,
          racks |-> << >>,
          switching |-> [Moxa |-> "EDS-408", Cisco |-> "IE-3300"],
          per_field_switch |-> 1,
          inverter_model |-> "SG250HX" ] ]

\* Line 20-25.
load_blueprint(template_name) == Templates[template_name]

AllDeviceTypes ==
    {"EDS-408", "IE-3300", "SG250HX", "Tracker-Controller", "MET-Station",
     "BESS-Container-Controller"}

\* Form inputs, lines 34-66.
FormData ==
    [ site_code : {"S2025-001"},
      plant_type : {"PV", "HYBRID"},
      field_switch_vendor : {"Moxa", "Cisco"},
      inverter_count : 1..MaxDevices,
      tracker_rows : 0..MaxDevices,
      met_station_count : 0..1,
      network_base : {"10.100."},
      mgmt_vlan : {10, 20},
      enable_bess : BOOLEAN,
      bess_container_count : {1},
      blueprint_template : DOMAIN Templates ]

\* What NetBox holds before the first deployment.
SeedTables ==
    { EmptyNetBox,
      \* the site was entered by hand
      [EmptyNetBox EXCEPT
         !.Site = {[id |-> 1, name |-> "S2025-001", status |-> "planned",
                    region |-> None, description |-> "entered by hand"]},
         !.pk = 2],
      \* a prefix of the plan exists, in no site, and one device role
      [EmptyNetBox EXCEPT
         !.Prefix = {[id |-> 1, prefix |-> << "10.100.", "90.0/24" >>,
                      site |-> None]},
         !.DeviceRole = {[id |-> 2, name |-> "inverter"]},
         !.pk = 3],
      \* the site has VLAN 20 twice
      [EmptyNetBox EXCEPT
         !.Site = {[id |-> 1, name |-> "S2025-001", status |-> "active",
                    region |-> None, description |-> "entered by hand"]},
         !.VLAN = {[id |-> 2, site |-> 1, vid |-> 20, name |-> "SCADA"],
                   [id |-> 3, site |-> 1, vid |-> 20, name |-> "SCADA-OLD"]},
         !.pk = 4] }

SeedDeviceTypes ==
    { AllDeviceTypes,
      AllDeviceTypes \ {"IE-3300"},
      AllDeviceTypes \ {"BESS-Container-Controller"} }

\* Django's QuerySet.create in place of get_or_create: always a new row.
get_or_create_always_creates(table, lookup, defaults, pk) ==
    LET new == [id |-> pk] @@ lookup @@ defaults
    IN  [table |-> table \cup {new}, obj |-> new, created |-> TRUE,
         raised |-> FALSE]

\* Django's QuerySet.get_or_create: the rows matching the lookup fields
\* decide; the defaults are used only for a new row and an existing row is
\* never written.  More than one match raises MultipleObjectsReturned.
get_or_create(table, lookup, defaults, pk) ==
    LET found == { o \in table : \A f \in DOMAIN lookup : o[f] = lookup[f] }
        new == [id |-> pk] @@ lookup @@ defaults
    IN  IF found = {}
        THEN [table |-> table \cup {new}, obj |-> new, created |-> TRUE,
              raised |-> FALSE]
        ELSE IF Cardinality(found) = 1
        THEN [table |-> table, obj |-> CHOOSE o \in found : TRUE,
              created |-> FALSE, raised |-> FALSE]
        ELSE [table |-> table, obj |-> new, created |-> FALSE,
              raised |-> TRUE]

\* <Model>.objects.get_or_create on the tables.
objects_get_or_create(db, model, lookup, defaults) ==
    LET r == get_or_create(db[model], lookup, defaults, db.pk)
    IN  [db |-> [db EXCEPT ![model] = r.table,
                           !.pk = IF r.created THEN @ + 1 ELSE @],
         obj |-> r.obj, raised |-> r.raised]

Raised(db) == [db |-> db, raised |-> TRUE]
Returned(db) == [db |-> db, raised |-> FALSE]

\* Line 111: int(eval(str(vlan_def["vid"]), {}, context)).
EvalVid(vlan_def, context) ==
    IF vlan_def.vid = "mgmt_vlan" THEN context.mgmt_vlan ELSE vlan_def.literal

\* Line 127: cidr_tpl.format(**context).
FormatCidr(cidr_tpl, context) == << context.network_base, cidr_tpl >>

\* Lines 110-119.
RECURSIVE VlanLoop(_, _, _, _)
VlanLoop(db, defs, site, context) ==
    IF defs = << >> THEN Returned(db)
    ELSE LET r == objects_get_or_create(db, "VLAN",
                     [site |-> site, vid |-> EvalVid(Head(defs), context)],
                     [name |-> Head(defs).name])
         IN  IF r.raised THEN Raised(r.db)
             ELSE VlanLoop(r.db, Tail(defs), site, context)

\* Lines 125-134.
RECURSIVE PrefixLoop(_, _, _, _)
PrefixLoop(db, tpls, site, context) ==
    IF tpls = << >> THEN Returned(db)
    ELSE LET r == objects_get_or_create(db, "Prefix",
                     [prefix |-> FormatCidr(Head(tpls), context)],
                     [site |-> site])
         IN  IF r.raised THEN Raised(r.db)
             ELSE PrefixLoop(r.db, Tail(tpls), site, context)

\* Lines 139-149.
RackStep(db, template, site) ==
    IF template.racks = << >> THEN Returned(db)
    ELSE LET r == objects_get_or_create(db, "Rack",
                     [name |-> template.racks[1].name, site |-> site],
                     [u_height |-> template.racks[1].height])
         IN  [db |-> r.db, raised |-> r.raised]

\* One Device.objects.get_or_create of the helpers: name, site, device
\* type and role are all lookup fields, there are no defaults.
DeviceGetOrCreate(db, name, site, dt, role) ==
    objects_get_or_create(db, "Device",
        [name |-> name, site |-> site, device_type |-> dt,
         device_role |-> role],
        [x \in {} |-> None])

\* The loops of lines 183-193 and 208-217: the role is fetched, or
\* created, in each round.
RECURSIVE DeviceLoopRoleEach(_, _, _, _, _, _, _)
DeviceLoopRoleEach(db, stem, i, count, site, dt, role_name) ==
    IF i > count THEN Returned(db)
    ELSE LET role == objects_get_or_create(db, "DeviceRole",
                        [name |-> role_name], [x \in {} |-> None])
         IN  IF role.raised THEN Raised(role.db)
             ELSE LET d == DeviceGetOrCreate(role.db, << stem, i >>, site, dt,
                                             role.obj.id)
                  IN  IF d.raised THEN Raised(d.db)
                      ELSE DeviceLoopRoleEach(d.db, stem, i + 1, count, site,
                                              dt, role_name)

\* The loops of lines 227-235, 244-252 and 262-270.
RECURSIVE DeviceLoop(_, _, _, _, _, _, _)
DeviceLoop(db, stem, i, count, site, dt, role) ==
    IF i > count THEN Returned(db)
    ELSE LET d == DeviceGetOrCreate(db, << stem, i >>, site, dt, role)
         IN  IF d.raised THEN Raised(d.db)
             ELSE DeviceLoop(d.db, stem, i + 1, count, site, dt, role)

\* Lines 176-193.  _get_devicetype raises in the first round when the
\* vendor's model is unknown, before any role or device is touched.
_create_field_switches(db, site, template, context) ==
    LET model == template.switching[context.field_switch_vendor]
        quotient == context.tracker_rows \div template.per_field_switch
        count == IF quotient = 0 THEN 1 ELSE quotient
    IN  IF model \notin db.DeviceType THEN Raised(db)
        ELSE DeviceLoopRoleEach(db, "FSW", 1, count, site, model,
                                "field-switch")

\* Lines 196-217.
_create_inverters(db, site, template, context) ==
    IF template.inverter_model \notin db.DeviceType THEN Raised(db)
    ELSE DeviceLoopRoleEach(db, "INV", 1, context.inverter_count, site,
                            template.inverter_model, "inverter")

\* Lines 220-235, 238-252, 255-270: the device type is fetched and the role
\* fetched or created before the loop, whatever the count.
CreateControllers(db, site, stem, count, model, role_name) ==
    IF model \notin db.DeviceType THEN Raised(db)
    ELSE LET role == objects_get_or_create(db, "DeviceRole",
                        [name |-> role_name], [x \in {} |-> None])
         IN  IF role.raised THEN Raised(role.db)
             ELSE DeviceLoop(role.db, stem, 1, count, site, model,
                             role.obj.id)

_create_trackers(db, site, template, context) ==
    CreateControllers(db, site, "TRK", context.tracker_rows,
                      "Tracker-Controller", "tracker-controller")

_create_met_stations(db, site, template, context) ==
    CreateControllers(db, site, "MET", context.met_station_count,
                      "MET-Station", "met-station")

_create_bess_containers(db, site, template, context) ==
    CreateControllers(db, site, "BESS", context.bess_container_count,
                      "BESS-Container-Controller", "bess-container")

\* A step of run(): the tables as the step leaves them, and where run()
\* goes on, or that it was left by an exception.
Step(r, next_pc) ==
    /\ nb' = r.db
    /\ bp' = [bp EXCEPT !.pc = IF r.raised THEN "FAILED" ELSE next_pc]
    /\ UNCHANGED report

\* Lines 75-85: run() is called with the form data and loads the template.
LoadBlueprint ==
    /\ bp.pc = "idle"
    /\ \E d \in FormData :
        bp' = [bp EXCEPT !.pc = "SITE", !.run = 1, !.data = d,
                         !.template = load_blueprint(d.blueprint_template)]
    /\ UNCHANGED << nb, report >>

\* Lines 90-104.
CreateSite ==
    /\ bp.pc = "SITE"
    /\ LET r == objects_get_or_create(nb, "Site",
                   [name |-> bp.data.site_code],
                   [status |-> "active", region |-> None,
                    description |-> << "Auto-generated site for",
                                       bp.data.plant_type >>])
       IN  /\ nb' = r.db
           /\ bp' = [bp EXCEPT !.pc = IF r.raised THEN "FAILED" ELSE "VLANS",
                               !.site = r.obj.id]
    /\ UNCHANGED report

\* Lines 109-119.
CreateVlans ==
    /\ bp.pc = "VLANS"
    /\ Step(VlanLoop(nb, bp.template.vlans, bp.site, bp.data), "PREFIXES")

\* Lines 124-134.
CreatePrefixes ==
    /\ bp.pc = "PREFIXES"
    /\ Step(PrefixLoop(nb, bp.template.prefixes, bp.site, bp.data), "RACKS")

\* Lines 139-149.
CreateRacks ==
    /\ bp.pc = "RACKS"
    /\ Step(RackStep(nb, bp.template, bp.site), "FIELD_SWITCHES")

\* Line 154.
CreateFieldSwitches ==
    /\ bp.pc = "FIELD_SWITCHES"
    /\ Step(_create_field_switches(nb, bp.site, bp.template, bp.data),
            "INVERTERS")

\* Line 155.
CreateInverters ==
    /\ bp.pc = "INVERTERS"
    /\ Step(_create_inverters(nb, bp.site, bp.template, bp.data), "TRACKERS")

\* Line 156.
CreateTrackers ==
    /\ bp.pc = "TRACKERS"
    /\ Step(_create_trackers(nb, bp.site, bp.template, bp.data),
            "MET_STATIONS")

\* Line 157.
CreateMetStations ==
    /\ bp.pc = "MET_STATIONS"
    /\ Step(_create_met_stations(nb, bp.site, bp.template, bp.data), "BESS")

\* Lines 159-162.
CreateBessContainers ==
    /\ bp.pc = "BESS"
    /\ Step(IF bp.data.enable_bess
            THEN _create_bess_containers(nb, bp.site, bp.template, bp.data)
            ELSE Returned(nb),
            "DONE")

\* run() is called again with the same form data after a run that reached
\* its last line; the template file is the same.  first keeps the tables as
\* the first run left them.
RunAgain ==
    /\ bp.pc = "DONE"
    /\ bp.run = 1
    /\ bp' = [bp EXCEPT !.pc = "SITE", !.run = 2, !.site = None,
                        !.template = load_blueprint(bp.data.blueprint_template),
                        !.first = << nb >>]
    /\ UNCHANGED << nb, report >>

InitBlueprint ==
    /\ dbPrefixes = {} /\ dbVlans = {} /\ dbAddresses = {}
    /\ installed = {"openpyxl"}
    /\ \E seed \in SeedTables, types \in SeedDeviceTypes :
        nb = [seed EXCEPT !.DeviceType = types]
    /\ InitRun

NextBlueprint ==
    \/ LoadBlueprint
    \/ CreateSite
    \/ CreateVlans
    \/ CreatePrefixes
    \/ CreateRacks
    \/ CreateFieldSwitches
    \/ CreateInverters
    \/ CreateTrackers
    \/ CreateMetStations
    \/ CreateBessContainers
    \/ RunAgain

SpecBlueprint == InitBlueprint /\ [][NextBlueprint]_vars

(***************************************************************************)
(* Properties.                                                             *)
(***************************************************************************)
Range(seq) == { seq[i] : i \in 1..Len(seq) }
PrefixById(id) == CHOOSE p \in PrefixUniverse : p.id = id
SummaryBuilt == workbook.summary # << >>
SummaryRows == IF SummaryBuilt THEN workbook.summary[1].rows ELSE << >>

\* C1 (as stated in the claim): for every prefix P that has been looked up
\* and every stored address record A, _get_prefix_ip_addresses(P) returned
\* A exactly when A's integer value lies in [network(P), broadcast(P)].
C1_ContainsIffValueInRange ==
    \A id \in DOMAIN matching_ips : \A a \in dbAddresses :
        (a \in Range(matching_ips[id])) <=>
            (First(PrefixById(id)) <= a.val /\ a.val <= Last(PrefixById(id)))

\* C1 (amended): _get_prefix_ip_addresses(P) returned A exactly when A is
\* of P's address family and A's integer value lies in
\* [network(P), broadcast(P)]; nothing else of A (its own prefix length,
\* its VRF, its site) takes part.
C1_ContainsIffSameFamilyAndValueInRange ==
    \A id \in DOMAIN matching_ips : \A a \in dbAddresses :
        (a \in Range(matching_ips[id])) <=>
            /\ a.fam = PrefixById(id).fam
            /\ First(PrefixById(id)) <= a.val
            /\ a.val <= Last(PrefixById(id))

\* C1 witness: a lookup returned a record of another prefix length, VRF and
\* site than the prefix's, and left out a stored record of the other
\* family whose integer value lies in the prefix's range.
C1_Witness ==
    \E id \in DOMAIN matching_ips :
        /\ \E a \in Range(matching_ips[id]) :
              /\ a.plen # PrefixById(id).len
              /\ a.vrf # 0
              /\ a.site # PrefixById(id).site
        /\ \E b \in dbAddresses :
              /\ b \notin Range(matching_ips[id])
              /\ b.fam # PrefixById(id).fam
              /\ First(PrefixById(id)) <= b.val
              /\ b.val <= Last(PrefixById(id))

\* C2: the capacity shown in a summary row is never negative; for an IPv4
\* prefix of length <= 30 it is the address count less 2, and for /31, /32,
\* /127 and /128 it is the address count.
C2_CapacityPolicy ==
    \A i \in 1..Len(SummaryRows) :
        LET row == SummaryRows[i]
            fam == row.prefix[1]
            len == row.prefix[3]
        IN  /\ row.total >= 0
            /\ (fam = 4 /\ len <= 30) => row.total = 2^(32 - len) - 2
            /\ (fam = 4 /\ len \in {31, 32}) => row.total = 2^(32 - len)
            /\ (fam = 6 /\ len \in {127, 128}) => row.total = 2^(128 - len)

\* C2 witness: a summary holding the row of a /32 with capacity 1 beside
\* the row of a prefix of length <= 30, or the row of a /128 beside a /127.
C2_Witness ==
    \/ \E i, j \in 1..Len(SummaryRows) :
          /\ SummaryRows[i].prefix[1] = 4 /\ SummaryRows[i].prefix[3] = 32
          /\ SummaryRows[i].total = 1
          /\ SummaryRows[j].prefix[1] = 4 /\ SummaryRows[j].prefix[3] = 30
          /\ SummaryRows[j].total = 2
    \/ \E i, j \in 1..Len(SummaryRows) :
          /\ SummaryRows[i].prefix[1] = 6 /\ SummaryRows[i].prefix[3] = 128
          /\ SummaryRows[j].prefix[1] = 6 /\ SummaryRows[j].prefix[3] = 127

OrphansResolved ==
    pc \in {"ORPHANS_RESOLVED", "VALIDATED", "COVER_BUILT", "SUMMARY_BUILT",
            "DETAILS_BUILT", "SAVED"}
OrphanIds == { v.id : v \in Range(orphan_vlans) }
AssociatedIds == prefix_vlan_ids(prefixes)
SiteVlanIds == { v.id : v \in {w \in dbVlans : w.site = data.site} }

\* C3 (as stated in the claim): the orphan VLAN set and the associated VLAN
\* id set are disjoint and their union is exactly the set of the site's
\* VLANs.
C3_OrphansAndAssociatedPartitionSiteVlans ==
    OrphansResolved =>
        /\ OrphanIds \cap AssociatedIds = {}
        /\ OrphanIds \cup AssociatedIds = SiteVlanIds

\* C3 (amended): the two sets are disjoint, every VLAN of the site is in
\* exactly one of them, and the associated set holds, beyond VLANs of the
\* site, only VLANs of other sites that the site's prefixes refer to; a
\* site VLAN no prefix refers to is in the orphan table and in no summary
\* row.
C3_OrphansAndAssociatedCoverSiteVlans ==
    /\ OrphansResolved =>
        /\ OrphanIds \cap AssociatedIds = {}
        /\ OrphanIds \cup (AssociatedIds \cap SiteVlanIds) = SiteVlanIds
        /\ \A id \in AssociatedIds \ SiteVlanIds :
              /\ VlanById(id).site # data.site
              /\ \E p \in Range(prefixes) : p.vlan = id
    /\ (OrphansResolved /\ SummaryBuilt) =>
        \A v \in dbVlans :
            (v.site = data.site /\ ~\E p \in Range(prefixes) : p.vlan = v.id) =>
                /\ \E k \in 1..Len(workbook.summary[1].orphans) :
                      workbook.summary[1].orphans[k].id = v.id
                /\ \A i \in 1..Len(SummaryRows) :
                      << SummaryRows[i].vid, SummaryRows[i].vlan_name >>
                          # << v.vid, v.name >>

\* C3 witness: the summary is built for a site with an orphan VLAN, a prefix
\* on a VLAN of the site and a prefix on a VLAN of another site.
C3_Witness ==
    /\ OrphansResolved /\ SummaryBuilt
    /\ OrphanIds # {}
    /\ AssociatedIds \cap SiteVlanIds # {}
    /\ AssociatedIds \ SiteVlanIds # {}

Sheets == workbook.sheets
HostCount(p) == HostHi(p) - HostLo(p) + 1
Count(seq, Test(_)) == Cardinality({i \in 1..Len(seq) : Test(seq[i])})

\* C4 (as stated in the claim): the host range of a prefix is enumerated
\* only when show_unused_ips is enabled and the prefix holds at most 254
\* usable hosts.
C4_EnumerationOnlyUpTo254Hosts ==
    \A k \in 1..Len(Sheets) :
        Sheets[k].show_all =>
            /\ data.show_unused_ips
            /\ HostCount(PrefixById(Sheets[k].pid)) <= 254

\* The stored records that lie in prefix p (same family, value in range)
\* and carry the address of row r.
RecordsOfRow(r, p) ==
    { a \in dbAddresses :
        /\ a.fam = p.fam /\ First(p) <= a.val /\ a.val <= Last(p)
        /\ AddrStr(a.fam, a.val) = r.ip }

ExpectedType(a) ==
    CASE a.assigned = "Interface" -> "Device"
      [] a.assigned = "VMInterface" -> "VM"
      [] a.assigned = "None" -> "N/A"
      [] a.assigned = "InterfaceRaising" -> "N/A"
      [] OTHER -> "FHRPGroup"

SummaryRowOf(pid) ==
    SummaryRows[CHOOSE i \in 1..Len(SummaryRows) : SummaryRows[i].pid = pid]
IsAvailable(r) == r.status = "Available"
HasDetail(r) == r.status # "Available"

\* C6 (as stated in the claim): with show_unused_ips enabled and a prefix
\* length >= 24, the detail section has exactly capacity(prefix) rows: one
\* row with detail per assigned address contained in the prefix, the rest
\* "Available".  (Stated for sections and addresses no fault touched.)
C6_DetailRowsEqualCapacity ==
    \A k \in 1..Len(Sheets) :
        LET sh == Sheets[k]
            p == PrefixById(sh.pid)
            contained == Range(matching_ips[sh.pid])
            addresses == { AddrStr(a.fam, a.val) : a \in contained }
        IN  ( /\ data.show_unused_ips
              /\ p.len >= 24
              /\ ~p.bad
              /\ \A a \in contained : ~a.bad ) =>
                /\ Len(sh.rows) = SummaryRowOf(sh.pid).total
                /\ Count(sh.rows, HasDetail) = Cardinality(addresses)
                /\ Count(sh.rows, IsAvailable) =
                      SummaryRowOf(sh.pid).total - Cardinality(addresses)

MissingDependencyResult == "ERROR: Missing required library 'openpyxl'"
NoDataResult == "ERROR: No prefixes or VLANs found for site"

SiteEmpty ==
    /\ {p \in dbPrefixes : p.site = data.site} = {}
    /\ {v \in dbVlans : v.site = data.site} = {}
PastGate ==
    \/ pc \in {"VALIDATED", "COVER_BUILT", "SUMMARY_BUILT", "DETAILS_BUILT",
               "SAVED"}
    \/ pc = "DONE" /\ result # MissingDependencyResult
NoArtifact == ~file_content /\ ~job_output /\ ~media_file /\ ~media_partial

\* C7: a site with no prefix and no VLAN ends the run at the validation gate
\* with the "no data" result, no workbook and no artifact; a site with a
\* prefix or a VLAN passes the gate and its report (cover, summary, detail
\* sheets) is built.
C7_NoDataGate ==
    /\ (result = NoDataResult) =>
          pc = "DONE" /\ SiteEmpty /\ ~workbook.built /\ NoArtifact
    /\ (PastGate /\ SiteEmpty) => result = NoDataResult
    /\ (PastGate /\ ~SiteEmpty) => workbook.built /\ result # NoDataResult
    /\ (pc \in {"DETAILS_BUILT", "SAVED", "DONE"} /\ PastGate /\ ~SiteEmpty) =>
          workbook.cover /\ SummaryBuilt

\* C7 witness: the run has ended with "no data" for a site that has
\* neither, while the inventory holds a prefix and a VLAN of another site.
C7_Witness ==
    /\ pc = "DONE" /\ result = NoDataResult
    /\ \E p \in dbPrefixes : p.site # data.site
    /\ \E v \in dbVlans : v.site # data.site

\* C8 (as stated in the claim): whatever faults the rows and sections met,
\* the finished document holds no partially built summary row and no
\* partially built detail section or detail row.
C8_NoPartialRowOrSection ==
    /\ SummaryBuilt => workbook.summary[1].pending = << >>
    /\ \A k \in 1..Len(Sheets) :
          Sheets[k].stage = "table" /\ Sheets[k].pending = << >>

\* C9 (as stated in the claim): once the artifact is rendered, the run never
\* ends without it: it is attached to the job, or written to the media
\* directory, or returned inline (which no return statement of run does).
C9_RenderedArtifactNeverLost ==
    (pc = "DONE" /\ file_content) => (job_output \/ media_file)

\* C10: without openpyxl the run ends with the error naming the library,
\* having issued no inventory read and produced no workbook and no
\* artifact.
C10_MissingDependencyBeforeAnyRead ==
    ("openpyxl" \notin installed) =>
        /\ pc \in {"unloaded", "loaded", "DONE"}
        /\ pc = "DONE" => result = MissingDependencyResult
        /\ queries = {}
        /\ ~workbook.built
        /\ NoArtifact

\* C10 witness: the run has ended on the missing library with prefixes and
\* addresses in the inventory.
C10_Witness ==
    /\ pc = "DONE" /\ result = MissingDependencyResult
    /\ dbPrefixes # {} /\ dbAddresses # {}

AttachedResult == "Documentation generated successfully! Click the download button"
MediaResult == "Documentation generated successfully! Download: /media/script-outputs/"
FaultResult == "ERROR: exception"
Succeeded == result \in {AttachedResult, MediaResult}

\* C11 (as stated in the claim): a run that an unrecovered fault ended has
\* returned an error string, and after a run a file is attached to the job
\* or present in the media directory, whole or in part, only if the run
\* returned a success result.
C11_ArtifactOnlyAfterSuccess ==
    pc = "DONE" =>
        /\ result \in {AttachedResult, MediaResult, FaultResult,
                       NoDataResult, MissingDependencyResult}
        /\ (job_output \/ media_file \/ media_partial) => Succeeded

DetailsBuilt ==
    \/ pc \in {"DETAILS_BUILT", "SAVED"}
    \/ pc = "DONE" /\ file_content
SitePrefixes == { p \in dbPrefixes : p.site = data.site }
Contained(p) ==
    { a \in dbAddresses : a.fam = p.fam /\ First(p) <= a.val /\ a.val <= Last(p) }
SheetsOf(p) == { k \in 1..Len(Sheets) : Sheets[k].pid = p.id }
SummaryRowsOf(p) == { i \in 1..Len(SummaryRows) : SummaryRows[i].pid = p.id }

\* C13: once the detail sheets are built, a prefix of the site has no
\* detail sheet exactly when no stored address lies in it and both
\* include_empty_prefixes and show_unused_ips are false (otherwise it has
\* one); skipped or not, a prefix whose summary row met no fault has its
\* one row in the summary table.
C13_SkipOnlyEmptyWhenBothOptionsOff ==
    DetailsBuilt =>
        \A p \in SitePrefixes :
            /\ (SheetsOf(p) = {}) <=>
                  /\ Contained(p) = {}
                  /\ ~data.include_empty_prefixes
                  /\ ~data.show_unused_ips
            /\ Cardinality(SheetsOf(p)) <= 1
            /\ ~p.bad => Cardinality(SummaryRowsOf(p)) = 1

\* C13 witness: the detail sheets are built, an empty prefix was skipped
\* and has its summary row, and a prefix holding an address has its sheet.
C13_Witness ==
    /\ DetailsBuilt
    /\ \E p \in SitePrefixes :
          SheetsOf(p) = {} /\ SummaryRowsOf(p) # {} /\ Contained(p) = {}
    /\ \E p \in SitePrefixes : SheetsOf(p) # {} /\ Contained(p) # {}

\* The steps of a run in their order: load, dependency check, the phases of
\* do_work, rendering, persistence.
PhaseOrder ==
    { << "unloaded", "loaded" >>, << "loaded", "INIT" >>,
      << "INIT", "PREFIXES_LOADED" >>, << "PREFIXES_LOADED", "VLANS_LOADED" >>,
      << "VLANS_LOADED", "ORPHANS_RESOLVED" >>,
      << "ORPHANS_RESOLVED", "VALIDATED" >>, << "VALIDATED", "COVER_BUILT" >>,
      << "COVER_BUILT", "SUMMARY_BUILT" >>, << "SUMMARY_BUILT", "DETAILS_BUILT" >>,
      << "DETAILS_BUILT", "SAVED" >>, << "SAVED", "DONE" >> }
DataPhases ==
    {"INIT", "PREFIXES_LOADED", "VLANS_LOADED", "ORPHANS_RESOLVED", "VALIDATED",
     "COVER_BUILT", "SUMMARY_BUILT", "DETAILS_BUILT"}

\* C14: every step of a run moves to the next phase of the fixed order
\* (prefixes loaded, VLANs loaded, orphans resolved, validated, cover built,
\* summary built, details built, then rendering and persistence, done), so
\* that no phase is entered early or twice; the only other moves end the
\* run: the missing dependency before any phase, the "no data" result at
\* validation, and the error result of an unrecovered fault.
C14_PhasesInFixedOrder ==
    [][ pc' # pc =>
          \/ << pc, pc' >> \in PhaseOrder
          \/ pc = "loaded" /\ pc' = "DONE" /\ result' = MissingDependencyResult
          \/ pc = "ORPHANS_RESOLVED" /\ pc' = "DONE" /\ result' = NoDataResult
          \/ pc \in DataPhases /\ pc' = "DONE" /\ result' = FaultResult ]_vars

\* C14 witness: a run has ended in success with the cover, the summary and
\* a detail sheet built from prefixes, VLANs and orphans that were read.
C14_Witness ==
    /\ pc = "DONE" /\ Succeeded
    /\ workbook.cover /\ SummaryBuilt /\ Len(Sheets) > 0
    /\ Len(prefixes) > 0 /\ Len(vlans) > 0 /\ Len(orphan_vlans) > 0

ReadKinds == { q.kind : q \in queries }
BranchSelected == pc \notin {"unloaded", "loaded"} /\ data.branch # None

\* C15: when a branch is selected (which takes the branching plugin), every
\* inventory read of the run was made with the branch context active, the
\* context is active in no other phase than those of do_work, and it is
\* left once the workbook is rendered, attached or written and once the
\* run is done; without a branch no read is made in a branch context.
C15_ReadsInsideBranchContext ==
    /\ BranchSelected =>
          /\ BRANCHING_AVAILABLE
          /\ \A q \in queries : q.in_branch
          /\ pc \in DataPhases => branch_active
    /\ ~BranchSelected => \A q \in queries : ~q.in_branch
    /\ branch_active => pc \in DataPhases /\ BranchSelected
    /\ (file_content \/ job_output \/ media_file \/ media_partial \/ pc = "DONE")
          => ~branch_active
    /\ pc \in {"unloaded", "loaded"} => queries = {}
    /\ pc \in {"SAVED", "DONE"} /\ file_content =>
          {"prefixes", "vlans", "orphan_vlans"} \subseteq ReadKinds

\* C15 witness: a run on a branch has ended in success after reading
\* prefixes, VLANs, orphans, addresses, tags and assignments.
C15_Witness ==
    /\ pc = "DONE" /\ Succeeded /\ BranchSelected
    /\ ReadKinds = {"prefixes", "vlans", "orphan_vlans", "addresses", "tags",
                    "assignments"}

\* The address carries a tag whose slug is exactly default-gateway, and the
\* lookup of its tags does not fail.
CarriesGatewayTag(a) == ~a.tags_raise /\ "default-gateway" \in a.tags
TaggedIn(p) == { a \in Contained(p) : CarriesGatewayTag(a) }

\* C16: an address is shown as a gateway (in the Gateway column of the
\* summary, in the header of its detail sheet, in its detail row) exactly
\* when it carries a tag with the slug default-gateway, spelled so; an
\* address whose tag lookup fails is shown as no gateway, and its prefix
\* still has its summary row and the address its complete detail row.
C16_GatewayIffExactTag ==
    /\ \A i \in 1..Len(SummaryRows) :
          LET row == SummaryRows[i]
              p == PrefixById(row.pid)
          IN  /\ (row.gateway = << >>) <=> (TaggedIn(p) = {})
              /\ row.gateway # << >> =>
                    /\ \E a \in TaggedIn(p) : row.gateway = AddrStr(a.fam, a.val)
                    /\ \A a \in TaggedIn(p) : row.gateway[2] <= a.val
    /\ SummaryBuilt =>
          \A p \in SitePrefixes :
              (~p.bad /\ \E a \in Contained(p) : a.tags_raise)
                  => SummaryRowsOf(p) # {}
    /\ \A k \in 1..Len(Sheets) :
          LET sh == Sheets[k]
              p == PrefixById(sh.pid)
          IN  sh.stage = "table" =>
                /\ Range(sh.gateways) = { AddrStr(a.fam, a.val) : a \in TaggedIn(p) }
                /\ \A r \in Range(sh.rows) :
                      /\ r.gw => \E a \in TaggedIn(p) : AddrStr(a.fam, a.val) = r.ip
                      /\ (r.status # "Available" /\ ~r.gw) =>
                            \E a \in Contained(p) \ TaggedIn(p) :
                                AddrStr(a.fam, a.val) = r.ip
                /\ ~sh.show_all =>
                      \A a \in Contained(p) :
                          (a.tags_raise /\ ~a.bad) =>
                              \E r \in Range(sh.rows) :
                                  /\ r.ip = AddrStr(a.fam, a.val)
                                  /\ r.cells = 7 /\ ~r.gw

\* C16 witness: a detail sheet lists a gateway row beside the complete row
\* of an address whose tag lookup fails, and the summary row of the prefix
\* names the gateway.
C16_Witness ==
    \E k \in 1..Len(Sheets) :
        /\ \E r \in Range(Sheets[k].rows) : r.gw
        /\ \E r \in Range(Sheets[k].rows) :
              /\ ~r.gw /\ r.cells = 7
              /\ \E a \in Contained(PrefixById(Sheets[k].pid)) :
                    a.tags_raise /\ AddrStr(a.fam, a.val) = r.ip
        /\ SummaryRowOf(Sheets[k].pid).gateway # << >>

\* The seven cells of the detail row of record a, by the kind of what the
\* address is assigned to.
ShowsOwnerOf(r, a) ==
    /\ r.ip = AddrStr(a.fam, a.val)
    /\ r.status = "active"
    /\ CASE a.assigned = "Interface" ->
              /\ r.device_type = "Device" /\ r.device_name = a.name
              /\ r.device_role = "role" /\ r.device_model = "model"
              /\ r.interface_name = "eth0"
         [] a.assigned = "VMInterface" ->
              /\ r.device_type = "VM" /\ r.device_name = a.name
              /\ r.device_role = "role" /\ r.device_model = "Virtual"
              /\ r.interface_name = "eth0"
         [] a.assigned = "Other" ->
              /\ r.device_type = "FHRPGroup" /\ r.device_name = a.name
              /\ r.device_role = "N/A" /\ r.device_model = "N/A"
              /\ r.interface_name = "N/A"
         [] a.assigned = "None" ->
              /\ r.device_type = "N/A" /\ r.device_name = "Unassigned"
              /\ r.device_role = "N/A" /\ r.device_model = "N/A"
              /\ r.interface_name = "N/A"
         [] OTHER ->
              /\ r.device_type = "N/A" /\ r.device_name = a.name
              /\ r.device_role = "N/A" /\ r.device_model = "N/A"
              /\ r.interface_name = "N/A"

\* C17: every complete detail row of an assigned address shows the owner
\* of a record with that address by its kind: a device interface as kind
\* Device with name, role, model and interface; a VM interface as kind VM;
\* another object by its text and the name of its type; no assignment as
\* empty owner fields; and an owner whose fields cannot be read still
\* yields a row.  No record whose cells the worksheet accepts loses its row
\* in a sheet that lists the assigned addresses.
C17_OwnerByAssignmentKind ==
    \A k \in 1..Len(Sheets) :
        LET sh == Sheets[k]
            p == PrefixById(sh.pid)
        IN  /\ \A r \in Range(sh.rows) :
                  r.status # "Available" =>
                      /\ r.cells = 7
                      /\ \E a \in Contained(p) : ShowsOwnerOf(r, a)
            /\ (sh.stage = "table" /\ ~sh.show_all) =>
                  \A a \in Contained(p) :
                      (\A b \in Contained(p) : b.val = a.val => ~b.bad) =>
                          \E r \in Range(sh.rows) :
                              r.ip = AddrStr(a.fam, a.val) /\ r.cells = 7

\* C17 witness: one sheet shows an address assigned to an object of
\* another kind and an unassigned one, or a device interface whose
\* device cannot be read beside a VM interface.
C17_Witness ==
    \E k \in 1..Len(Sheets) :
        \/ /\ \E r \in Range(Sheets[k].rows) : r.device_type = "FHRPGroup"
           /\ \E r \in Range(Sheets[k].rows) : r.device_name = "Unassigned"
        \/ /\ \E r \in Range(Sheets[k].rows) :
                 r.device_name = "sw2" /\ r.device_type = "N/A"
           /\ \E r \in Range(Sheets[k].rows) : r.device_type = "VM"

\* C18 (as stated in the claim): the summary rows are in ascending network
\* order of their prefixes, the orphan VLAN rows in ascending order of
\* their VLAN number, and the address rows of every detail sheet in
\* strictly ascending order of their addresses.
C18_OutputOrdered ==
    /\ \A i, j \in 1..Len(SummaryRows) :
          i < j =>
              \/ SummaryRows[i].prefix[1] < SummaryRows[j].prefix[1]
              \/ /\ SummaryRows[i].prefix[1] = SummaryRows[j].prefix[1]
                 /\ SummaryRows[i].prefix[2] <= SummaryRows[j].prefix[2]
    /\ SummaryBuilt =>
          \A i, j \in 1..Len(workbook.summary[1].orphans) :
              i < j => workbook.summary[1].orphans[i].vid
                          <= workbook.summary[1].orphans[j].vid
    /\ \A k \in 1..Len(Sheets) :
          \A i \in 1..(Len(Sheets[k].rows) - 1) :
              Sheets[k].rows[i].ip[2] < Sheets[k].rows[i + 1].ip[2]

\* C19: no step of a run, whatever the run's outcome, changes the stored
\* prefixes, VLANs or addresses (with their sites, tags and assignments).
C19_InventoryNeverMutated ==
    [][ /\ dbPrefixes' = dbPrefixes
        /\ dbVlans' = dbVlans
        /\ dbAddresses' = dbAddresses ]_vars

\* C19 witness: a run that read prefixes, VLANs, orphans, addresses, tags
\* and assignments, and met a row fault, has ended on a failed attachment
\* or on an unrecovered fault.
C19_Witness ==
    /\ pc = "DONE" /\ result = FaultResult
    /\ ReadKinds = {"prefixes", "vlans", "orphan_vlans", "addresses", "tags",
                    "assignments"}
    /\ \E k \in 1..Len(Sheets) : Sheets[k].stage = "header"

\* The tables site_blueprint.py creates objects in.
BlueprintModels == {"Site", "VLAN", "Prefix", "Rack", "DeviceRole", "Device"}
SecondRun == bp.run = 2
AfterFirstRun == bp.first[1]

\* C20: while DeploySiteFromBlueprint.run runs a second time with the same
\* form data and template on the tables a first run that reached its last
\* line left behind, every table holds exactly the objects it held when the
\* first run ended, each with the field values it had, no primary key has
\* been handed out, and the second run is not left by an exception.
C20_SecondRunCreatesNothing ==
    SecondRun =>
        /\ \A m \in BlueprintModels : nb[m] = AfterFirstRun[m]
        /\ nb.pk = AfterFirstRun.pk
        /\ bp.pc # "FAILED"

\* A second run has reached its last line after a first run that created
\* a site, VLANs, prefixes, a rack, roles and devices of every kind.
C20_Witness ==
    /\ SecondRun
    /\ bp.pc = "DONE"
    /\ bp.data.enable_bess
    /\ bp.data.tracker_rows = MaxDevices
    /\ bp.data.met_station_count = 1
    /\ \A m \in BlueprintModels : nb[m] # {}
    /\ Cardinality(nb.DeviceRole) = 5
    /\ { d.name[1] : d \in nb.Device } = {"FSW", "INV", "TRK", "MET", "BESS"}
    /\ nb.pk > 10

\* C21 (as stated in the claim): in every summary row the used count is at
\* most the capacity shown next to it and the utilization percentage lies
\* between 0 and 100.
C21_UsedWithinCapacity ==
    \A i \in 1..Len(SummaryRows) :
        /\ SummaryRows[i].used <= SummaryRows[i].total
        /\ 0 <= SummaryRows[i].pct[1]
        /\ SummaryRows[i].pct[1] <= 100 * SummaryRows[i].pct[2]

\* The sheets of the workbook a hyperlink location "'<name>'!A1" opens:
\* those whose title is the name as given, not a numbered variant of it.
LinkTargets(link) ==
    { k \in 1..Len(Sheets) : Sheets[k].title = [name |-> link, n |-> 0] }

\* C22 (as stated in the claim): once the detail sheets are built, every
\* hyperlink on a summary row's prefix cell targets a sheet that is in the
\* workbook, and that sheet is the detail sheet of the row's prefix.
C22_LinkTargetsOwnSheet ==
    DetailsBuilt =>
        \A i \in 1..Len(SummaryRows) :
            SummaryRows[i].link # << >> =>
                /\ LinkTargets(SummaryRows[i].link[1]) # {}
                /\ \A k \in LinkTargets(SummaryRows[i].link[1]) :
                       Sheets[k].pid = SummaryRows[i].pid

\* The rows of sheet sh that carry the assignment detail of record a: its
\* address with its own prefix length, and its owner.
OwnRows(sh, a) ==
    { i \in 1..Len(sh.rows) :
        /\ sh.rows[i].plen = a.plen
        /\ sh.rows[i].cells = 7
        /\ ShowsOwnerOf(sh.rows[i], a) }

\* A detail section that no fault touched: the sheet has its table and
\* neither its prefix nor a record inside it holds a refused character.
CleanSection(sh) ==
    /\ sh.stage = "table"
    /\ ~PrefixById(sh.pid).bad
    /\ \A a \in Contained(PrefixById(sh.pid)) : ~a.bad

\* C23 (as stated in the claim): for every prefix that has a detail
\* section, each address record the summary counts as used appears in
\* exactly one detail row carrying that record's own assignment detail,
\* and the number of detail rows with assignment detail equals the
\* summary's used count.  (Stated for sections no fault touched.)
C23_SummaryAndDetailAgree ==
    DetailsBuilt =>
        \A k \in 1..Len(Sheets) :
            CleanSection(Sheets[k]) =>
                /\ \A a \in Contained(PrefixById(Sheets[k].pid)) :
                       Cardinality(OwnRows(Sheets[k], a)) = 1
                /\ Count(Sheets[k].rows, HasDetail)
                      = SummaryRowOf(Sheets[k].pid).used

====
